---- MODULE Spec2Model ----
(***************************************************************************)
(* NavigationStack (pkg/nuclide-navigation-stack/lib/NavigationStack.js):  *)
(* a bounded list of locations with a current index, push / previous /     *)
(* next navigation, in-place position update, editor <-> uri conversion    *)
(* and filtered removal, with a change notification.                       *)
(*                                                                         *)
(* The code's _index is 0-based; TLA+ sequences are 1-based, so the entry  *)
(* at the code's index i is elements[i + 1].  Every location pushed is a   *)
(* fresh object (the callers build one per call), so entries are modelled  *)
(* by value.                                                               *)
(***************************************************************************)
EXTENDS Integers, Sequences, FiniteSets, TLC

\* ------------------------------------------------------------- bounds

\* const MAX_STACK_DEPTH = 100; scaled down for model checking.
MAX_STACK_DEPTH == 3

\* How many pushes beyond MAX_STACK_DEPTH the push-only log follows.
ExtraPushes == 2

\* ------------------------------------------------------------- values

\* atom$TextEditor handles, compared by identity.
Editors == {"e1", "e2"}

\* editor.getPath() of a document that was never saved (null / undefined).
NoPath == "<null>"

\* Non-empty paths.
Paths == {"a"}

\* Everything editor.getPath() may return: the path is host state, it may
\* differ from one call to the next (save, save as).
PathValues == Paths \cup {"", NoPath}

\* Buffer positions, opaque to the stack.
Positions == {"p1", "p2"}

\* The field a location of the other type does not have.
None == "<none>"

\* The null a function returns / the undefined of a void function.
Null == "<null>"
Undefined == "<undefined>"

\* {type: 'editor', editor, bufferPosition}
EditorLocation(editor, bufferPosition) ==
  [type |-> "editor", editor |-> editor, uri |-> None,
   bufferPosition |-> bufferPosition]

\* {type: 'uri', uri, bufferPosition}
UriLocation(uri, bufferPosition) ==
  [type |-> "uri", editor |-> None, uri |-> uri,
   bufferPosition |-> bufferPosition]

EditorLocations == {EditorLocation(e, p) : e \in Editors, p \in Positions}

\* ------------------------------------------------------------- state

VARIABLES
  elements,   \* this._elements
  index,      \* this._index
  emitted,    \* what this._changes published during the last call: the
              \* (elements, index) an observer saw at each notification
  result,     \* the last call's return value
  threw,      \* whether an invariant(...) of the last call failed
  last,       \* the last call, its arguments and the state it started from
  pushed,     \* the log of pushes while nothing but push has been called
  beforeOpen, \* the state before editorOpened(e) when the last two calls
              \* were editorOpened(e); editorClosed(e) with one path
  backs       \* how many calls in a row, up to now, were a previous() that
              \* moved the cursor

vars ==
  <<elements, index, emitted, result, threw, last, pushed, beforeOpen, backs>>

\* ------------------------------------------------------------- queries

isEmpty(els) == Len(els) = 0

hasCurrent(els) == ~isEmpty(els)

\* the condition getCurrent() asserts
GetCurrentAssertion(els, idx) == idx >= 0 /\ idx < Len(els)

getCurrent(els, idx) == els[idx + 1]

\* getCurrentEditor() calls getCurrent() once the stack is non-empty, so it
\* fails where that assertion fails.
getCurrentEditorThrows(els, idx) ==
  hasCurrent(els) /\ ~GetCurrentAssertion(els, idx)

getCurrentEditor(els, idx) ==
  IF ~hasCurrent(els) THEN Null
  ELSE IF getCurrentEditorThrows(els, idx) THEN Undefined
  ELSE LET location == getCurrent(els, idx)
       IN IF location.type = "editor" THEN location.editor ELSE Null

hasNext(els, idx) == idx + 1 < Len(els)

\* hasPrevious() with the comparison off by one.
hasPrevious_offByOne(els, idx) == idx >= 0

hasPrevious(els, idx) == idx > 0

\* What an observer sees when _hasChanged() runs.
Seen(els, idx) == [elements |-> els, index |-> idx]

\* The state a call leaves, what it published, returned, and whether one of
\* its assertions failed.
Outcome(els, idx, out, res, failed) ==
  [elements |-> els, index |-> idx, emitted |-> out, result |-> res,
   threw |-> failed]

Min(a, b) == IF a < b THEN a ELSE b

Max(a, b) == IF a > b THEN a ELSE b

\* ------------------------------------------------------------- push

\* Array.prototype.splice(start): removes everything from start on.
SpliceFrom(els, start) ==
  LET from == IF start < 0 THEN Max(Len(els) + start, 0)
              ELSE Min(start, Len(els))
  IN SubSeq(els, 1, from)

\* Array.prototype.splice(0, 1): removes the first element.
SpliceFirst(els) == IF Len(els) = 0 THEN els ELSE Tail(els)

\* push without the truncation of the entries after the cursor.
PushTruncate_keepsForward(els, idx) == els

\* this._elements.splice(this._index + 1)
PushTruncate(els, idx) == SpliceFrom(els, idx + 1)

\* push without the eviction.
PushEvict_never(els) == els

\* The eviction removing the entry at index 1 instead of index 0.
PushEvict_newerEntry(els) ==
  IF Len(els) > MAX_STACK_DEPTH
  THEN <<Head(els)>> \o Tail(Tail(els))
  ELSE els

\* if (this._elements.length > MAX_STACK_DEPTH) this._elements.splice(0, 1)
PushEvict(els) ==
  IF Len(els) > MAX_STACK_DEPTH THEN SpliceFirst(els) ELSE els

\* The cursor advanced by one instead of set from the length.
PushIndex_increment(els, idx) == idx + 1

\* The cursor set to the length instead of the last index.
PushIndex_length(els, idx) == Len(els)

\* this._index = this._elements.length - 1, els being the new elements and
\* idx the index before the call
PushIndex(els, idx) == Len(els) - 1

\* push publishing the change before it sets the cursor.
push_notifiesBeforeIndex(els, idx, newTop) ==
  LET after == PushEvict(Append(PushTruncate(els, idx), newTop))
  IN IF ~(Len(after) <= MAX_STACK_DEPTH)
     THEN Outcome(after, idx, <<>>, Undefined, TRUE)
     ELSE Outcome(after, PushIndex(after, idx), <<Seen(after, idx)>>,
                  Undefined, FALSE)

push(els, idx, newTop) ==
  LET after == PushEvict(Append(PushTruncate(els, idx), newTop))
  IN IF ~(Len(after) <= MAX_STACK_DEPTH)
     THEN Outcome(after, idx, <<>>, Undefined, TRUE)
     ELSE LET newIndex == PushIndex(after, idx)
          IN Outcome(after, newIndex, <<Seen(after, newIndex)>>,
                     Undefined, FALSE)

\* ------------------------------------------------------------- attemptUpdate

\* attemptUpdate without the in-place update.
attemptUpdate_alwaysPush(els, idx, newTop) == push(els, idx, newTop)

attemptUpdate(els, idx, newTop) ==
  IF getCurrentEditorThrows(els, idx)
  THEN Outcome(els, idx, <<>>, Undefined, TRUE)
  ELSE IF getCurrentEditor(els, idx) = newTop.editor
  THEN IF ~GetCurrentAssertion(els, idx)
       THEN Outcome(els, idx, <<>>, Undefined, TRUE)
       ELSE Outcome(
              [els EXCEPT ![idx + 1].bufferPosition = newTop.bufferPosition],
              idx, <<>>, Undefined, FALSE)
  ELSE push(els, idx, newTop)

\* ------------------------------------------------------------- previous / next

previous(els, idx) ==
  IF hasPrevious(els, idx)
  THEN LET newIndex == idx - 1
       IN IF ~GetCurrentAssertion(els, newIndex)
          THEN Outcome(els, newIndex, <<>>, Undefined, TRUE)
          ELSE Outcome(els, newIndex, <<Seen(els, newIndex)>>,
                       getCurrent(els, newIndex), FALSE)
  ELSE Outcome(els, idx, <<>>, Null, FALSE)

\* next() reading the entry to return before it moves the cursor.
next_returnsOldCurrent(els, idx) ==
  IF ~hasNext(els, idx)
  THEN Outcome(els, idx, <<>>, Null, FALSE)
  ELSE LET newIndex == idx + 1
       IN IF ~GetCurrentAssertion(els, idx)
          THEN Outcome(els, idx, <<>>, Undefined, TRUE)
          ELSE Outcome(els, newIndex, <<Seen(els, newIndex)>>,
                       getCurrent(els, idx), FALSE)

next(els, idx) ==
  IF ~hasNext(els, idx)
  THEN Outcome(els, idx, <<>>, Null, FALSE)
  ELSE LET newIndex == idx + 1
       IN IF ~GetCurrentAssertion(els, newIndex)
          THEN Outcome(els, newIndex, <<>>, Undefined, TRUE)
          ELSE Outcome(els, newIndex, <<Seen(els, newIndex)>>,
                       getCurrent(els, newIndex), FALSE)

\* ------------------------------------------------------------- filter

\* A predicate is modelled by its answers, keep[i] for the i-th entry (a
\* predicate may tell entries apart by identity).
Predicates(els) == [1..Len(els) -> BOOLEAN]

\* Array.prototype.filter: the entries the predicate accepts, in order.
FilterElements(els, keep) ==
  LET kept == {i \in 1..Len(els) : keep[i]}
      nth(k) == CHOOSE i \in kept : Cardinality({j \in kept : j < i}) = k - 1
  IN [k \in 1..Cardinality(kept) |-> els[nth(k)]]

\* filter without the adjustment of the cursor.
FilterNewIndex_noAdjust(els, idx, keep) == idx

\* The adjustment counting the rejected entries strictly before the cursor.
FilterNewIndex_strictlyBefore(els, idx, keep) ==
  idx - Cardinality({i \in 1..Len(els) : ~keep[i] /\ (i - 1) < idx})

\* newIndex: one less for every rejected entry at an index <= this._index
FilterNewIndex(els, idx, keep) ==
  idx - Cardinality({i \in 1..Len(els) : ~keep[i] /\ (i - 1) <= idx})

\* The clamp without its lower bound.
ClampIndex_noMax(newIndex, length) == Min(newIndex, length - 1)

\* The clamp with the lower bound applied last.
ClampIndex_maxLast(newIndex, length) == Max(Min(newIndex, length - 1), 0)

\* The clamp with the length as its upper bound, not the last index.
ClampIndex_toLength(newIndex, length) == Min(Max(newIndex, 0), length)

\* Math.min(Math.max(newIndex, 0), this._elements.length - 1)
ClampIndex(newIndex, length) == Min(Max(newIndex, 0), length - 1)

\* filter publishing a change when the cursor moved, not when the length
\* changed.
filter_notifiesOnCursorMove(els, idx, keep) ==
  LET after == FilterElements(els, keep)
      newIndex == ClampIndex(FilterNewIndex(els, idx, keep), Len(after))
  IN Outcome(after, newIndex,
             IF newIndex # idx THEN <<Seen(after, newIndex)>> ELSE <<>>,
             Undefined, FALSE)

\* filter publishing a change on every call.
filter_alwaysNotifies(els, idx, keep) ==
  LET after == FilterElements(els, keep)
      newIndex == ClampIndex(FilterNewIndex(els, idx, keep), Len(after))
  IN Outcome(after, newIndex, <<Seen(after, newIndex)>>, Undefined, FALSE)

filter(els, idx, keep) ==
  LET originalSize == Len(els)
      after == FilterElements(els, keep)
      newIndex == ClampIndex(FilterNewIndex(els, idx, keep), Len(after))
  IN Outcome(after, newIndex,
             IF originalSize # Len(after) THEN <<Seen(after, newIndex)>>
             ELSE <<>>,
             Undefined, FALSE)

\* ------------------------------------------------------------- editorOpened / editorClosed

\* editorOpened converting every uri location, whatever its uri.
editorOpened_anyUri(els, idx, editor, uri) ==
  IF uri = NoPath
  THEN Outcome(els, idx, <<>>, Undefined, FALSE)
  ELSE Outcome(
         [i \in 1..Len(els) |->
            IF els[i].type = "uri"
            THEN EditorLocation(editor, els[i].bufferPosition)
            ELSE els[i]],
         idx, <<>>, Undefined, FALSE)

editorOpened(els, idx, editor, uri) ==
  IF uri = NoPath
  THEN Outcome(els, idx, <<>>, Undefined, FALSE)
  ELSE Outcome(
         [i \in 1..Len(els) |->
            IF els[i].type = "uri" /\ els[i].uri = uri
            THEN EditorLocation(editor, els[i].bufferPosition)
            ELSE els[i]],
         idx, <<>>, Undefined, FALSE)

\* The predicate with && in place of ||.
NotOfEditor_and(els, editor) ==
  [i \in 1..Len(els) |-> els[i].type # "editor" /\ editor # els[i].editor]

\* location => location.type !== 'editor' || editor !== location.editor
NotOfEditor(els, editor) ==
  [i \in 1..Len(els) |-> els[i].type # "editor" \/ editor # els[i].editor]

\* editorClosed that converts the current entry only.
editorClosed_onlyCurrent(els, idx, editor, uri) ==
  IF uri = "" \/ uri = NoPath
  THEN filter(els, idx, NotOfEditor(els, editor))
  ELSE Outcome(
         [i \in 1..Len(els) |->
            IF els[i].type = "editor" /\ editor = els[i].editor /\ i = idx + 1
            THEN UriLocation(uri, els[i].bufferPosition)
            ELSE els[i]],
         idx, <<>>, Undefined, FALSE)

\* editorClosed converting the first editor location of the editor only.
editorClosed_firstOnly(els, idx, editor, uri) ==
  IF uri = "" \/ uri = NoPath
  THEN filter(els, idx, NotOfEditor(els, editor))
  ELSE Outcome(
         [i \in 1..Len(els) |->
            IF /\ els[i].type = "editor"
               /\ editor = els[i].editor
               /\ \A j \in 1..(i - 1) :
                    ~(els[j].type = "editor" /\ editor = els[j].editor)
            THEN UriLocation(uri, els[i].bufferPosition)
            ELSE els[i]],
         idx, <<>>, Undefined, FALSE)

editorClosed(els, idx, editor, uri) ==
  IF uri = "" \/ uri = NoPath
  THEN filter(els, idx, NotOfEditor(els, editor))
  ELSE Outcome(
         [i \in 1..Len(els) |->
            IF els[i].type = "editor" /\ editor = els[i].editor
            THEN UriLocation(uri, els[i].bufferPosition)
            ELSE els[i]],
         idx, <<>>, Undefined, FALSE)

\* ------------------------------------------------------------- the calls

\* ------------------------------------------------------------- getCurrent / getCurrentEditor, called

\* A call of getCurrent(): the current entry, or a failed invariant.
getCurrentCall(els, idx) ==
  IF ~GetCurrentAssertion(els, idx)
  THEN Outcome(els, idx, <<>>, Undefined, TRUE)
  ELSE Outcome(els, idx, <<>>, getCurrent(els, idx), FALSE)

\* A call of getCurrentEditor().
getCurrentEditorCall(els, idx) ==
  IF getCurrentEditorThrows(els, idx)
  THEN Outcome(els, idx, <<>>, Undefined, TRUE)
  ELSE Outcome(els, idx, <<>>, getCurrentEditor(els, idx), FALSE)

\* The call just made: its name, its arguments (None where it has none),
\* the state it started from and, for a push, how many previous() calls led
\* up to it.
Call(op, loc, editor, uri, keep) ==
  [op |-> op, loc |-> loc, editor |-> editor, uri |-> uri, keep |-> keep,
   elements |-> elements, index |-> index,
   backs |-> IF op = "push" THEN backs ELSE 0]

NoLocation == EditorLocation(None, None)

Commit(call, out) ==
  /\ elements' = out.elements
  /\ index' = out.index
  /\ emitted' = out.emitted
  /\ result' = out.result
  /\ threw' = out.threw
  /\ last' = call

PushLogMax == MAX_STACK_DEPTH + ExtraPushes

Untracked == [tracked |-> FALSE, log |-> <<>>]

NoSnapshot == [set |-> FALSE, elements |-> <<>>, index |-> -1]

Init ==
  /\ elements = <<>>
  /\ index = -1
  /\ emitted = <<>>
  /\ result = Undefined
  /\ threw = FALSE
  /\ last = [op |-> "constructor", loc |-> NoLocation, editor |-> None,
             uri |-> None, keep |-> <<>>, elements |-> <<>>, index |-> -1,
             backs |-> 0]
  /\ pushed = [tracked |-> TRUE, log |-> <<>>]
  /\ beforeOpen = NoSnapshot
  /\ backs = 0

Push ==
  \E newTop \in EditorLocations :
    /\ Commit(Call("push", newTop, None, None, <<>>),
              push(elements, index, newTop))
    /\ pushed' = IF pushed.tracked /\ Len(pushed.log) < PushLogMax
                 THEN [pushed EXCEPT !.log = Append(@, newTop)]
                 ELSE Untracked
    /\ beforeOpen' = NoSnapshot
    /\ backs' = 0

AttemptUpdate ==
  \E newTop \in EditorLocations :
    /\ Commit(Call("attemptUpdate", newTop, None, None, <<>>),
              attemptUpdate(elements, index, newTop))
    /\ pushed' = Untracked
    /\ beforeOpen' = NoSnapshot
    /\ backs' = 0

Previous ==
  /\ Commit(Call("previous", NoLocation, None, None, <<>>),
            previous(elements, index))
  /\ pushed' = Untracked
  /\ beforeOpen' = NoSnapshot
  /\ backs' = IF index' < index THEN backs + 1 ELSE 0

Next_ ==
  /\ Commit(Call("next", NoLocation, None, None, <<>>),
            next(elements, index))
  /\ pushed' = Untracked
  /\ beforeOpen' = NoSnapshot
  /\ backs' = 0

EditorOpened ==
  \E editor \in Editors, uri \in PathValues :
    /\ Commit(Call("editorOpened", NoLocation, editor, uri, <<>>),
              editorOpened(elements, index, editor, uri))
    /\ pushed' = Untracked
    /\ beforeOpen' = NoSnapshot
    /\ backs' = 0

EditorClosed ==
  \E editor \in Editors, uri \in PathValues :
    /\ Commit(Call("editorClosed", NoLocation, editor, uri, <<>>),
              editorClosed(elements, index, editor, uri))
    /\ pushed' = Untracked
    /\ beforeOpen' =
         IF /\ last.op = "editorOpened"
            /\ last.editor = editor
            /\ last.uri = uri
            /\ uri \in Paths
         THEN [set |-> TRUE, elements |-> last.elements, index |-> last.index]
         ELSE NoSnapshot
    /\ backs' = 0

Filter ==
  \E keep \in Predicates(elements) :
    /\ Commit(Call("filter", NoLocation, None, None, keep),
              filter(elements, index, keep))
    /\ pushed' = Untracked
    /\ beforeOpen' = NoSnapshot
    /\ backs' = 0

\* The two queries change no field of the stack; they do not end a run of
\* push calls or of previous() calls.
GetCurrent ==
  /\ Commit(Call("getCurrent", NoLocation, None, None, <<>>),
            getCurrentCall(elements, index))
  /\ beforeOpen' = NoSnapshot
  /\ UNCHANGED <<pushed, backs>>

GetCurrentEditor ==
  /\ Commit(Call("getCurrentEditor", NoLocation, None, None, <<>>),
            getCurrentEditorCall(elements, index))
  /\ beforeOpen' = NoSnapshot
  /\ UNCHANGED <<pushed, backs>>

Next ==
  \/ GetCurrent
  \/ GetCurrentEditor
  \/ Push
  \/ AttemptUpdate
  \/ Previous
  \/ Next_
  \/ EditorOpened
  \/ EditorClosed
  \/ Filter

Spec == Init /\ [][Next]_vars

TypeOK ==
  /\ index \in -1..MAX_STACK_DEPTH
  /\ Len(elements) <= MAX_STACK_DEPTH + 1
  /\ threw \in BOOLEAN

\* ------------------------------------------------------------- properties

\* The entry at the code's index i of a sequence.
At(els, i) == els[i + 1]

\* The last call was a filter (called directly, or by editorClosed for an
\* editor without a path) and keepOf is what its predicate answered.
Filtered ==
  \/ last.op = "filter"
  \/ last.op = "editorClosed" /\ last.uri \in {"", NoPath}

keepOf ==
  IF last.op = "filter" THEN last.keep
  ELSE NotOfEditor(last.elements, last.editor)

\* C1: in every reachable state the stack holds at most MAX_STACK_DEPTH
\* entries.
C1_DepthBounded == Len(elements) <= MAX_STACK_DEPTH

\* C1 witness: a push onto a full stack whose cursor is at the top, the one
\* case where the depth would be exceeded.
C1_Witness ==
  /\ last.op = "push"
  /\ Len(last.elements) = MAX_STACK_DEPTH
  /\ last.index = MAX_STACK_DEPTH - 1
  /\ Len(elements) = MAX_STACK_DEPTH

\* C2: in every reachable state the cursor is in [-1, len - 1]; it is a
\* valid index whenever the stack is non-empty, and -1 exactly when it is
\* empty.
C2_CursorInRange ==
  /\ index \in -1..(Len(elements) - 1)
  /\ Len(elements) > 0 => (0 <= index /\ index < Len(elements))
  /\ index = -1 <=> Len(elements) = 0

\* C2 witness: a filter removed the current entry at index 0 and kept a
\* later one, so the adjusted cursor went below 0 before it was clamped.
C2_Witness ==
  /\ last.op = "filter"
  /\ last.index = 0
  /\ ~last.keep[1]
  /\ Len(elements) > 0
  /\ index = 0

Distinct(seq) == \A i, j \in 1..Len(seq) : seq[i] = seq[j] => i = j

InSeq(x, seq) == \E i \in 1..Len(seq) : seq[i] = x

\* The last n entries of seq (all of them when it has fewer).
LastN(seq, n) == SubSeq(seq, Max(1, Len(seq) - n + 1), Len(seq))

\* C3: while only push has been called, the stack holds the last
\* MAX_STACK_DEPTH entries pushed, in the order pushed; a push at depth
\* MAX_STACK_DEPTH removes exactly the entry at index 0 and appends the new
\* one; after MAX_STACK_DEPTH + 1 pushes of distinct entries the length is
\* MAX_STACK_DEPTH and the first entry pushed is gone.
C3_PushEvictsOldest ==
  pushed.tracked =>
    /\ elements = LastN(pushed.log, MAX_STACK_DEPTH)
    /\ (last.op = "push" /\ Len(last.elements) = MAX_STACK_DEPTH) =>
         elements = Tail(last.elements) \o <<last.loc>>
    /\ (Len(pushed.log) = MAX_STACK_DEPTH + 1 /\ Distinct(pushed.log)) =>
         /\ Len(elements) = MAX_STACK_DEPTH
         /\ ~InSeq(pushed.log[1], elements)

\* C3 witness: MAX_STACK_DEPTH + 1 distinct entries were pushed and nothing
\* else was called.
C3_Witness ==
  /\ pushed.tracked
  /\ Len(pushed.log) = MAX_STACK_DEPTH + 1
  /\ Distinct(pushed.log)

\* C4: after a push the cursor is the last index, the current entry is the
\* entry pushed and hasNext() is false.
C4_PushMovesToTop ==
  last.op = "push" =>
    /\ index = Len(elements) - 1
    /\ GetCurrentAssertion(elements, index)
    /\ getCurrent(elements, index) = last.loc
    /\ ~hasNext(elements, index)

\* C4 witness: a push onto a full stack, where the oldest entry is evicted
\* and the last index does not grow.
C4_Witness ==
  /\ last.op = "push"
  /\ Len(last.elements) = MAX_STACK_DEPTH
  /\ last.index = MAX_STACK_DEPTH - 1
  /\ index = last.index
  /\ getCurrent(elements, index) = last.loc

\* C5: a push made after k >= 1 previous() calls that moved the cursor
\* leaves the entries at indices 0..cursor, in their order, followed by the
\* new entry: it drops the entries ahead of the cursor and nothing else.
C5_PushTruncatesForward ==
  (last.op = "push" /\ last.backs >= 1) =>
    /\ elements = SubSeq(last.elements, 1, last.index + 1) \o <<last.loc>>
    /\ index = last.index + 1
    /\ ~hasNext(elements, index)

\* C5 witness: push(A), push(B), previous(), push(C) gave [A, C] with the
\* cursor at 1.
C5_Witness ==
  LET A == EditorLocation("e1", "p1")
      B == EditorLocation("e2", "p1")
      C == EditorLocation("e1", "p2")
  IN /\ last.op = "push"
     /\ last.backs = 1
     /\ last.elements = <<A, B>>
     /\ last.index = 0
     /\ last.loc = C
     /\ elements = <<A, C>>
     /\ index = 1

\* The stack before the last call had a current entry that is an editor
\* location of the editor passed to the call.
EditorMatched ==
  /\ hasCurrent(last.elements)
  /\ getCurrentEditor(last.elements, last.index) = last.loc.editor

\* C6: attemptUpdate with the current entry's editor only sets the current
\* entry's position: length, cursor and all other entries stay, nothing is
\* published.  With any other editor (an empty stack and a current uri
\* location included) it leaves what push(newTop) leaves and publishes what
\* push publishes.
C6_AttemptUpdate ==
  last.op = "attemptUpdate" =>
    IF EditorMatched
    THEN /\ Len(elements) = Len(last.elements)
         /\ index = last.index
         /\ \A i \in 1..Len(elements) :
              i # index + 1 => elements[i] = last.elements[i]
         /\ getCurrent(elements, index) =
              EditorLocation(last.loc.editor, last.loc.bufferPosition)
         /\ emitted = <<>>
         /\ ~threw
    ELSE LET after == push(last.elements, last.index, last.loc)
         IN /\ elements = after.elements
            /\ index = after.index
            /\ emitted = after.emitted
            /\ result = after.result
            /\ threw = after.threw
            /\ Len(emitted) = 1

\* C6 witness: attemptUpdate with the current editor and another position,
\* on a stack that holds a second entry of the same editor.
C6_Witness ==
  /\ last.op = "attemptUpdate"
  /\ EditorMatched
  /\ getCurrent(last.elements, last.index).bufferPosition
       # last.loc.bufferPosition
  /\ \E i \in 1..Len(last.elements) :
       /\ i # last.index + 1
       /\ last.elements[i].editor = last.loc.editor

\* C7: next() without a next entry and previous() without a previous entry
\* return null, change neither entries nor cursor and publish nothing.
C7_NoMoveAtEnds ==
  /\ (last.op = "next" /\ ~hasNext(last.elements, last.index)) =>
       /\ result = Null
       /\ elements = last.elements
       /\ index = last.index
       /\ emitted = <<>>
       /\ ~threw
  /\ (last.op = "previous" /\ ~(last.index > 0)) =>
       /\ result = Null
       /\ elements = last.elements
       /\ index = last.index
       /\ emitted = <<>>
       /\ ~threw

\* C7 witness: previous() called with the cursor at index 0 of a stack of
\* several entries.
C7_Witness ==
  /\ last.op = "previous"
  /\ last.index = 0
  /\ Len(last.elements) >= 2
  /\ result = Null

\* C8: editorOpened(e) then editorClosed(e), e having the same non-empty
\* path p in both calls: every entry that was a uri location of p before the
\* two calls is the same uri location, position included, at the same index
\* after them; cursor and length are as before.
C8_OpenCloseRestores ==
  beforeOpen.set =>
    /\ Len(elements) = Len(beforeOpen.elements)
    /\ index = beforeOpen.index
    /\ \A i \in 1..Len(beforeOpen.elements) :
         (/\ beforeOpen.elements[i].type = "uri"
          /\ beforeOpen.elements[i].uri = last.uri) =>
           /\ elements[i] = beforeOpen.elements[i]
           /\ elements[i] =
                UriLocation(last.uri, beforeOpen.elements[i].bufferPosition)

\* C8 witness: the pair of calls ran on a stack holding uri locations of the
\* path at two different positions.
C8_Witness ==
  /\ beforeOpen.set
  /\ last.op = "editorClosed"
  /\ \E i, j \in 1..Len(beforeOpen.elements) :
       /\ beforeOpen.elements[i].type = "uri"
       /\ beforeOpen.elements[j].type = "uri"
       /\ beforeOpen.elements[i].uri = last.uri
       /\ beforeOpen.elements[j].uri = last.uri
       /\ beforeOpen.elements[i].bufferPosition
            # beforeOpen.elements[j].bufferPosition

\* How many entries the last filter removed at indices strictly before the
\* cursor.
RemovedBefore ==
  Cardinality({i \in 1..Len(last.elements) : ~keepOf[i] /\ (i - 1) < last.index})

\* The last filter removed entries at indices before the cursor only.
RemovedOnlyBefore ==
  /\ Filtered
  /\ hasCurrent(last.elements)
  /\ \A i \in 1..Len(last.elements) : (i - 1) >= last.index => keepOf[i]

\* C9: a filter that removes k entries, all at indices strictly before the
\* cursor, moves the cursor down by exactly k.
C9_FilterShiftsCursor ==
  RemovedOnlyBefore =>
    /\ index = last.index - RemovedBefore
    /\ getCurrent(elements, index) = getCurrent(last.elements, last.index)

\* C9 witness: a filter removed an entry before the cursor while an entry
\* after the cursor stayed.
C9_Witness ==
  /\ RemovedOnlyBefore
  /\ last.op = "filter"
  /\ RemovedBefore >= 1
  /\ last.index < Len(last.elements) - 1
  /\ index = last.index - RemovedBefore

\* C10: a filter that rejects every entry leaves the state of a new stack:
\* no entries, cursor -1, isEmpty() true, hasCurrent(), hasNext() and
\* hasPrevious() false.
C10_FilterAllLeavesEmpty ==
  (Filtered /\ \A i \in 1..Len(last.elements) : ~keepOf[i]) =>
    /\ isEmpty(elements)
    /\ ~hasCurrent(elements)
    /\ ~hasNext(elements, index)
    /\ ~hasPrevious(elements, index)
    /\ index = -1
    /\ elements = <<>>

\* C10 witness: a filter rejected every entry of a stack of several entries
\* whose cursor was not at index 0.
C10_Witness ==
  /\ last.op = "filter"
  /\ Len(last.elements) >= 2
  /\ last.index >= 1
  /\ \A i \in 1..Len(last.elements) : ~last.keep[i]
  /\ index = -1

\* The last call is one of those said to publish a change: a push, a
\* previous() or next() that moved, a filter (direct or by editorClosed of an
\* editor without a path) that removed something, an attemptUpdate with an
\* editor other than the current one.
Publishing ==
  \/ last.op = "push"
  \/ last.op \in {"previous", "next"} /\ index # last.index
  \/ Filtered /\ Len(elements) # Len(last.elements)
  \/ last.op = "attemptUpdate" /\ ~EditorMatched

\* The last call is one of those that change entries without publishing: a
\* conversion between editor and uri locations, or attemptUpdate with the
\* current editor.
SilentChange ==
  \/ last.op = "editorOpened"
  \/ last.op = "editorClosed" /\ last.uri \notin {"", NoPath}
  \/ last.op = "attemptUpdate" /\ EditorMatched

\* C11: a call that changes the cursor or the number of entries is a
\* publishing call, and a publishing call publishes the stack, as the call
\* left it, during the call; a call that changes the state and publishes
\* nothing is a conversion or an in-place position update, which leave the
\* cursor and the number of entries alone.
C11_ChangesArePublished ==
  /\ (index # last.index \/ Len(elements) # Len(last.elements)) => Publishing
  /\ Publishing => emitted = <<Seen(elements, index)>>
  /\ (emitted = <<>> /\ (elements # last.elements \/ index # last.index)) =>
       /\ SilentChange
       /\ index = last.index
       /\ Len(elements) = Len(last.elements)

\* C11 witness: a filter removed an entry after the cursor only, so the
\* cursor stayed and the number of entries changed, and it published.
C11_Witness ==
  /\ last.op = "filter"
  /\ index = last.index
  /\ Len(elements) = Len(last.elements) - 1
  /\ last.keep[last.index + 1]
  /\ emitted = <<Seen(elements, index)>>

\* C12: the assertion of getCurrent() holds exactly when hasCurrent() is
\* true; getCurrent() fails exactly on an empty stack; getCurrentEditor() on
\* an empty stack returns null and does not fail; no assertion fails in
\* push, previous, next, attemptUpdate or getCurrentEditor.
C12_AssertionsHold ==
  /\ GetCurrentAssertion(elements, index) <=> hasCurrent(elements)
  /\ last.op = "getCurrent" =>
       /\ threw <=> isEmpty(last.elements)
       /\ ~threw => result = getCurrent(last.elements, last.index)
  /\ (last.op = "getCurrentEditor" /\ isEmpty(last.elements)) =>
       (result = Null /\ ~threw)
  /\ last.op \in {"push", "previous", "next", "attemptUpdate",
                  "getCurrentEditor"} => ~threw

\* C12 witness: getCurrent() was called on an empty stack and failed.
C12_Witness ==
  /\ last.op = "getCurrent"
  /\ isEmpty(last.elements)
  /\ ~hasCurrent(elements)
  /\ threw

\* C13: previous() with a previous entry moves the cursor down by exactly
\* one, next() with a next entry moves it up by exactly one; both leave the
\* entries unchanged, return the entry at the new cursor and publish a
\* change.
C13_MoveByOne ==
  /\ (last.op = "previous" /\ last.index > 0) =>
       /\ index = last.index - 1
       /\ elements = last.elements
       /\ result = At(last.elements, last.index - 1)
       /\ emitted = <<Seen(elements, index)>>
       /\ ~threw
  /\ (last.op = "next" /\ last.index + 1 < Len(last.elements)) =>
       /\ index = last.index + 1
       /\ elements = last.elements
       /\ result = At(last.elements, last.index + 1)
       /\ emitted = <<Seen(elements, index)>>
       /\ ~threw

\* C13 witness: next() moved from index 0 to an entry that differs from the
\* one it left, with a further entry after it.
C13_Witness ==
  /\ last.op = "next"
  /\ last.index = 0
  /\ Len(last.elements) >= 3
  /\ index = 1
  /\ result = At(elements, 1)
  /\ At(elements, 0) # At(elements, 1)

\* The last call was a conversion: editorOpened, or editorClosed of an
\* editor with a non-empty path.
Converted ==
  \/ last.op = "editorOpened"
  \/ last.op = "editorClosed" /\ last.uri \notin {"", NoPath}

\* The entry a conversion is to convert: for editorOpened of an editor with
\* a path, a uri location of that path; for editorClosed, an editor location
\* of that editor.
ToConvert(location) ==
  IF last.op = "editorOpened"
  THEN last.uri # NoPath /\ location.type = "uri" /\ location.uri = last.uri
  ELSE location.type = "editor" /\ location.editor = last.editor

\* C14: editorOpened, and editorClosed with a non-empty path, keep the
\* cursor, the number of entries and every entry's position, change no entry
\* other than those they are to convert and publish nothing; editorOpened of
\* an editor without a path changes nothing.
C14_ConversionsKeepFrame ==
  Converted =>
    /\ index = last.index
    /\ Len(elements) = Len(last.elements)
    /\ emitted = <<>>
    /\ ~threw
    /\ \A i \in 1..Len(last.elements) :
         /\ elements[i].bufferPosition = last.elements[i].bufferPosition
         /\ ~ToConvert(last.elements[i]) => elements[i] = last.elements[i]
    /\ (last.op = "editorOpened" /\ last.uri = NoPath) =>
         elements = last.elements

\* C14 witness: editorClosed with a path converted an editor location while
\* the stack held an editor location of another editor and a uri location.
C14_Witness ==
  /\ last.op = "editorClosed"
  /\ last.uri \in Paths
  /\ \E i, j, k \in 1..Len(last.elements) :
       /\ ToConvert(last.elements[i])
       /\ elements[i] # last.elements[i]
       /\ last.elements[j].type = "editor"
       /\ last.elements[j].editor # last.editor
       /\ last.elements[k].type = "uri"

\* Some entry of els is an editor location of the editor.
OpenOf(els, editor) ==
  \E i \in 1..Len(els) : els[i].type = "editor" /\ els[i].editor = editor

\* C15: editorClosed of an editor whose path is null or empty removes the
\* editor locations of that editor and nothing else, the other entries
\* keeping their order, and publishes a change exactly when it removed an
\* entry.
C15_CloseUnsavedRemoves ==
  (last.op = "editorClosed" /\ last.uri \in {"", NoPath}) =>
    LET Survives(location) ==
          ~(location.type = "editor" /\ location.editor = last.editor)
    IN /\ elements = SelectSeq(last.elements, Survives)
       /\ (emitted # <<>>) <=> OpenOf(last.elements, last.editor)
       /\ Len(emitted) <= 1
       /\ ~threw

\* C15 witness: editorClosed without a path removed an entry and kept an
\* editor location of another editor and a uri location.
C15_Witness ==
  /\ last.op = "editorClosed"
  /\ last.uri \in {"", NoPath}
  /\ OpenOf(last.elements, last.editor)
  /\ Len(elements) = 2
  /\ \E i, j \in 1..Len(elements) :
       /\ elements[i].type = "editor"
       /\ elements[j].type = "uri"
  /\ emitted = <<Seen(elements, index)>>

\* C16: right after editorClosed(editor), with or without a path, no entry
\* is an editor location of that editor; and an editor without an editor
\* location on the stack has none after any call other than push,
\* attemptUpdate and editorOpened.
C16_NoDanglingEditor ==
  /\ last.op = "editorClosed" => ~OpenOf(elements, last.editor)
  /\ \A editor \in Editors :
       (/\ ~OpenOf(last.elements, editor)
        /\ last.op \notin {"push", "attemptUpdate", "editorOpened"}) =>
         ~OpenOf(elements, editor)

\* C16 witness: editorClosed with a path ran on a stack holding two editor
\* locations of the editor and one of another editor.
C16_Witness ==
  /\ last.op = "editorClosed"
  /\ last.uri \in Paths
  /\ ~OpenOf(elements, last.editor)
  /\ \E i, j, k \in 1..Len(last.elements) :
       /\ i # j
       /\ last.elements[i].editor = last.editor
       /\ last.elements[j].editor = last.editor
       /\ last.elements[k].type = "editor"
       /\ last.elements[k].editor # last.editor

\* C17 as stated: a filter that removes every entry of a non-empty stack
\* leaves the cursor at index 0.
C17_Original_CursorZero ==
  (Filtered /\ Len(last.elements) > 0 /\ Len(elements) = 0) => index = 0

\* C17, amended: a filter that leaves no entry leaves the cursor at -1, the
\* value of Math.min(Math.max(newIndex, 0), length - 1) for length 0; it
\* never leaves it at 0.
C17_FilterToEmptyCursor ==
  (Filtered /\ Len(elements) = 0) =>
    /\ index = -1
    /\ index = Min(0, Len(elements) - 1)
    /\ index # 0

\* C17 witness: editorClosed of an editor without a path removed every entry
\* of a stack of several entries.
C17_Witness ==
  /\ last.op = "editorClosed"
  /\ last.uri \in {"", NoPath}
  /\ Len(last.elements) >= 2
  /\ Len(elements) = 0
  /\ index = -1

\* C18: filter publishes a change exactly when the number of entries
\* changed: a predicate that accepts every entry (an empty stack included)
\* leaves entries and cursor as they were and publishes nothing, one that
\* rejects an entry publishes exactly once.
C18_FilterNotifiesOnRemoval ==
  Filtered =>
    LET removed == {i \in 1..Len(last.elements) : ~keepOf[i]}
    IN /\ (emitted # <<>>) <=> (Len(elements) # Len(last.elements))
       /\ removed = {} =>
            /\ elements = last.elements
            /\ index = last.index
            /\ emitted = <<>>
       /\ removed # {} => Len(emitted) = 1

\* C18 witness: a filter whose predicate accepted every entry of a stack of
\* several entries published nothing.
C18_Witness ==
  /\ last.op = "filter"
  /\ Len(last.elements) >= 2
  /\ \A i \in 1..Len(last.elements) : last.keep[i]
  /\ emitted = <<>>

\* The 1-based positions of the entries the last filter kept, and the code's
\* index at which the entry kept from position i ends up.
Kept == {i \in 1..Len(last.elements) : keepOf[i]}

NewIndexOf(i) == Cardinality({j \in Kept : j < i})

\* C19: after a filter of a non-empty stack that keeps some entry, the kept
\* entries are in their old order; the old current entry, if kept, is
\* current; if not, the nearest kept entry before it is current, or the
\* first kept entry when none before it is kept.
C19_FilterCurrent ==
  (Filtered /\ Len(last.elements) > 0 /\ Kept # {}) =>
    LET cur == last.index + 1
        keptBefore == {j \in Kept : j < cur}
    IN /\ Len(elements) = Cardinality(Kept)
       /\ \A i \in Kept : At(elements, NewIndexOf(i)) = last.elements[i]
       /\ IF cur \in Kept
          THEN /\ index = NewIndexOf(cur)
               /\ getCurrent(elements, index) =
                    getCurrent(last.elements, last.index)
          ELSE IF keptBefore # {}
          THEN LET nearest == CHOOSE j \in keptBefore :
                                \A k \in keptBefore : k <= j
               IN index = NewIndexOf(nearest)
          ELSE LET first == CHOOSE j \in Kept : \A k \in Kept : j <= k
               IN index = NewIndexOf(first) /\ index = 0

\* C19 witness: a filter rejected the current entry of a stack of three
\* distinct entries and kept the entries on both sides of it.
C19_Witness ==
  /\ last.op = "filter"
  /\ Len(last.elements) = 3
  /\ Distinct(last.elements)
  /\ last.index = 1
  /\ last.keep = <<TRUE, FALSE, TRUE>>
  /\ index = 0
  /\ getCurrent(elements, index) = last.elements[1]

\* C20: a call publishes at most one change, and what is published is the
\* state the call leaves: entries and cursor have their final values, within
\* the depth bound and with the cursor on an entry.
C20_PublishedStateIsFinal ==
  /\ Len(emitted) <= 1
  /\ \A n \in 1..Len(emitted) :
       /\ emitted[n] = Seen(elements, index)
       /\ Len(emitted[n].elements) <= MAX_STACK_DEPTH
       /\ Len(emitted[n].elements) > 0 =>
            GetCurrentAssertion(emitted[n].elements, emitted[n].index)
       /\ Len(emitted[n].elements) = 0 => emitted[n].index = -1

\* C20 witness: a push made after previous() on a full stack dropped the
\* forward entries, appended and moved the cursor, and published once.
C20_Witness ==
  /\ last.op = "push"
  /\ last.backs >= 1
  /\ Len(last.elements) = MAX_STACK_DEPTH
  /\ Len(elements) < Len(last.elements)
  /\ index # last.index
  /\ emitted = <<Seen(elements, index)>>

====
